---- MODULE Spec2Model ----
(***************************************************************************)
(* Model of governance-bot.py: the proposal dispatcher, the reminder       *)
(* scheduler with its in-memory job table, the button interaction handler  *)
(* and the three persisted records (subscriber preferences, proposal-id    *)
(* map, known Snapshot proposals).                                         *)
(*                                                                         *)
(* Time is an integer clock `now`; reminder offsets are whole ticks.       *)
(* A handler that never suspends before its last write is one action: the  *)
(* file I/O, requests.post, get_new_entries and schedule_reminders (which  *)
(* contains no await that suspends) all run without yielding to the loop.  *)
(* A network call of a poller that does not return holds the loop: the     *)
(* poller's task is then "stalled" and nothing else runs until it returns.  *)
(***************************************************************************)
EXTENDS Integers, Sequences, FiniteSets, TLC

VARIABLES
    preferences,      \* user_preferences.json: preferences["reminders"]
    proposal_id_map,  \* proposal_id_map.json, in insertion order: <<proposal_id, short_id>>
    known_proposals,  \* known_snapshot_proposals.json (and the poller's copy of it)
    SCHEDULED_JOBS,   \* chat_id -> proposal_id -> list of job handles
    untracked_jobs,   \* jobs waiting in the job queue that SCHEDULED_JOBS has no handle of
    now,              \* wall clock, datetime.now(timezone.utc)
    config,           \* [reminders] section of config.ini, read once per deployment
    poller_tasks,     \* the two tasks post_init creates: poller -> what it is doing
    suspended,        \* the handle_new_proposal coroutine waiting at an await, if any
    steps,            \* handler runs, timer firings, clock ticks and restarts so far
    last              \* the handler that ran last and what it showed to the outside

vars == <<preferences, proposal_id_map, known_proposals, SCHEDULED_JOBS,
          untracked_jobs, now, config, poller_tasks, suspended, steps, last>>

----------------------------------------------------------------------------
(* Bounds of the model *)

MaxSteps == 4       \* length of the runs explored

(* Environment *)

\* Chat ids.  Only equality of chat ids matters, so the n-th chat that turns up
\* is chat n.
Chats == {1, 2}
ChainIds == {"c1"}
TestIds == {"t1"}
Durations == {2}                   \* (votingEndBlock - block_number) * 12 s
BatchSizes == {0, 1}               \* events of one get_new_entries() batch
\* The Snapshot space, oldest proposal first.  A proposal never changes.
SnapshotFeed ==
    << [id |-> "s1", start |-> 1, end |-> 3],
       [id |-> "s2", start |-> 0, end |-> 1] >>
\* str(uuid.uuid4())[:8] draws.  Only equality of short ids matters, so the
\* n-th draw is taken among the first n names.
ShortIdPool == <<"a", "b", "c", "d">>
\* a short id no proposal was given (a button of a lost or foreign map)
StrayShortId == "zz"

Configs ==
    { [from_start |-> <<1, 2>>, before_end |-> <<>>,  buttons |-> <<1>>],
      [from_start |-> <<0>>,    before_end |-> <<1>>, buttons |-> <<2>>] }

(* Program constants *)

SnapshotFirst == 3        \* proposals(first: 3, ...)
TestStartDelay == 1       \* timedelta(seconds=5), in ticks
TestEndDelay == 2         \* timedelta(minutes=2), in ticks

----------------------------------------------------------------------------
(* Values and helpers *)

None == <<"None">>
Voted == <<"voted">>
IsoFormat(t) == <<"iso", t>>      \* next_reminder_time.isoformat()

Range(s) == {s[i] : i \in DOMAIN s}
Min(S) == CHOOSE x \in S : \A y \in S : x <= y
\* a loop that takes the response as it came
Reverse_Identity(s) == s
\* reversed(proposals)
Reverse(s) == [i \in 1..Len(s) |-> s[Len(s) + 1 - i]]

\* d[k] = v on a dict
Put(d, k, v) == [x \in (DOMAIN d) \cup {k} |-> IF x = k THEN v ELSE d[x]]
\* del d[k]
Del(d, k) == [x \in (DOMAIN d) \ {k} |-> d[x]]
\* d.setdefault(k1, {})[k2] = v
Put2(d, k1, k2, v) ==
    Put(d, k1, Put(IF k1 \in DOMAIN d THEN d[k1] ELSE <<>>, k2, v))

EmptyDict == <<>>

Keys(m) == {m[i][1] : i \in DOMAIN m}
Values(m) == {m[i][2] : i \in DOMAIN m}
\* {v: k for k, v in proposal_id_map.items()}[short_id]: the last key wins
short_id_to_proposal_id(m, sid) ==
    LET idx == {i \in DOMAIN m : m[i][2] = sid}
    IN  m[CHOOSE i \in idx : \A j \in idx : j <= i][1]

HasEntry(prefs, chat, pid) == chat \in DOMAIN prefs /\ pid \in DOMAIN prefs[chat]

\* A job handle as job_queue.run_once returns it.  Its status is "pending"
\* while the job waits in the job queue, "fired" once the queue has run it.
\* A job taken out by schedule_removal() is in the queue no more.
Job(when) == [when |-> when, status |-> "pending"]

Handles(sj, chat, pid) ==
    IF chat \in DOMAIN sj /\ pid \in DOMAIN sj[chat] THEN sj[chat][pid] ELSE <<>>

Pending(handles) == SelectSeq(handles, LAMBDA job : job.status = "pending")

\* the fire times of the jobs of a pair that wait in the job queue
LiveJobs(sj, untracked, chat, pid) ==
    [i \in 1..Len(Pending(Handles(sj, chat, pid))) |->
        Pending(Handles(sj, chat, pid))[i].when]
    \o
    [i \in 1..Len(SelectSeq(untracked,
                    LAMBDA u : u.chat = chat /\ u.proposal_id = pid)) |->
        SelectSeq(untracked,
                  LAMBDA u : u.chat = chat /\ u.proposal_id = pid)[i].when]


----------------------------------------------------------------------------
(* The reminder scheduler *)

\* get_reminder_intervals: the subscriber's own offsets when the persisted entry
\* of the pair is a dict holding them, else the defaults of config.ini.  No code
\* path stores such a dict, and schedule_reminders is only reached for a pair
\* with no persisted entry, so user_reminders is always {} here.
get_reminder_intervals(cfg, prefs, chat, pid) ==
    LET user_reminders == IF HasEntry(prefs, chat, pid) THEN prefs[chat][pid]
                          ELSE EmptyDict
        from_start == IF user_reminders = EmptyDict THEN cfg.from_start
                      ELSE user_reminders.from_start
        before_end == IF user_reminders = EmptyDict THEN cfg.before_end
                      ELSE user_reminders.before_end
    IN  <<from_start, before_end>>

\* a scheduler that skips nothing
InPast_Never(when, t) == FALSE

\* `if when < now: continue`
InPast(when, t) == when < t

\* a scheduler that gives equal instants one job
RECURSIVE MergeEqualTimes(_)
MergeEqualTimes(times) ==
    IF times = <<>> THEN <<>>
    ELSE LET front == MergeEqualTimes(SubSeq(times, 1, Len(times) - 1))
             x == times[Len(times)]
         IN  IF \E i \in DOMAIN front : front[i].when = x.when THEN front
             ELSE Append(front, x)

FireTimes_Merged(intervals, start_time, end_time) ==
    MergeEqualTimes(
        [i \in 1..Len(intervals[1]) |->
            [when |-> start_time + intervals[1][i], text |-> "from_start"]]
        \o
        [i \in 1..Len(intervals[2]) |->
            [when |-> end_time - intervals[2][i], text |-> "before_end"]])

\* The fire times schedule_reminders computes, in the order of its two loops,
\* each tagged with the loop (and so the message text) it comes from.
FireTimes(intervals, start_time, end_time) ==
    [i \in 1..Len(intervals[1]) |->
        [when |-> start_time + intervals[1][i], text |-> "from_start"]]
    \o
    [i \in 1..Len(intervals[2]) |->
        [when |-> end_time - intervals[2][i], text |-> "before_end"]]

\* st is [prefs, map, sj, untracked]: the handler's in-memory preferences, the
\* id map, SCHEDULED_JOBS and the queued jobs without a handle in it.
\* file_prefs is the preferences file.  `SCHEDULED_JOBS[..][proposal_id] = []`
\* drops the handles the pair had: their waiting jobs stay in the job queue.
schedule_reminders(st, file_prefs, cfg, chat, pid, start_time, end_time, t) ==
    LET intervals == get_reminder_intervals(cfg, file_prefs, chat, pid)
        kept == SelectSeq(FireTimes(intervals, start_time, end_time),
                          LAMBDA f : ~InPast(f.when, t))
        dropped == Pending(Handles(st.sj, chat, pid))
    IN  [st EXCEPT
           !.untracked = st.untracked \o
               [i \in 1..Len(dropped) |->
                   [chat |-> chat, proposal_id |-> pid, when |-> dropped[i].when]],
           !.sj = Put2(st.sj, chat, pid,
                       [i \in 1..Len(kept) |-> Job(kept[i].when)])]

\* a loop that removes nothing
RemoveJobs_Nothing(handles) == handles

\* a loop whose removal of a job that has run puts it back into the queue
RemoveJobs_Rearms(handles) ==
    [i \in DOMAIN handles |->
        [handles[i] EXCEPT !.status = IF @ = "pending" THEN "removed"
                                      ELSE IF @ = "fired" THEN "pending" ELSE @]]

\* The loop of cancel_scheduled_reminders over the handles of a pair:
\* schedule_removal() takes every waiting job out of the queue.  A handle of a
\* job that has run has removed = False too; removing it changes nothing.
RemoveJobs(handles) ==
    [i \in DOMAIN handles |->
        [handles[i] EXCEPT !.status = IF @ = "pending" THEN "removed" ELSE @]]

\* the fire times of the jobs the loop takes out of the queue
RECURSIVE RemovedTimes(_, _)
RemovedTimes(before, after) ==
    IF before = <<>> THEN <<>>
    ELSE (IF Head(before).status = "pending" /\ Head(after).status = "removed"
          THEN <<Head(before).when>> ELSE <<>>)
         \o RemovedTimes(Tail(before), Tail(after))

\* cancel_scheduled_reminders: the loop, then `del SCHEDULED_JOBS[..][..]`.
\* A job the loop left waiting stays in the job queue without a handle.
cancel_scheduled_reminders(st, chat, pid) ==
    IF chat \in DOMAIN st.sj /\ pid \in DOMAIN st.sj[chat]
    THEN LET left == Pending(RemoveJobs(st.sj[chat][pid]))
         IN  [st EXCEPT
                !.untracked = st.untracked \o
                    [i \in 1..Len(left) |->
                        [chat |-> chat, proposal_id |-> pid, when |-> left[i].when]],
                !.sj = Put(st.sj, chat, Del(st.sj[chat], pid))]
    ELSE st

----------------------------------------------------------------------------
(* The dispatcher *)

\* a dispatcher that draws a short id at every delivery
AssignShortId_Redraws(m, pid, sid) ==
    IF pid \notin Keys(m) THEN Append(m, <<pid, sid>>)
    ELSE [i \in DOMAIN m |-> IF m[i][1] = pid THEN <<pid, sid>> ELSE m[i]]

\* `if proposal_id not in proposal_id_map: ... save_proposal_id_map`
AssignShortId(m, pid, sid) ==
    IF pid \notin Keys(m) THEN Append(m, <<pid, sid>>) ELSE m

\* a schedule_reminders that sends a message while it schedules
Awaits_Notifying(fn) ==
    IF fn = "handle_new_proposal" THEN {"schedule_reminders"}
    ELSE IF fn = "schedule_reminders" THEN {"send_message"}
    ELSE {}

\* The coroutines awaited in the body of a coroutine function of the module:
\* handle_new_proposal awaits schedule_reminders (line 350), whose body holds
\* no await (job_queue.run_once and the file reads are plain calls).
Awaits(fn) ==
    IF fn = "handle_new_proposal" THEN {"schedule_reminders"} ELSE {}

\* the awaitables of the libraries that give the loop back: network and timers
LibraryAwaitables == {"send_message", "answer", "sleep"}

\* `await fn(...)` gives the event loop to other tasks only if the body of fn
\* reaches an await that does.
RECURSIVE Yields(_)
Yields(fn) ==
    \/ fn \in LibraryAwaitables
    \/ \E callee \in Awaits(fn) : Yields(callee)

\* `for chat_id in preferences["reminders"]` of handle_new_proposal, over the
\* chats not yet visited (taken in ascending order; the order only decides the
\* numbering of the job handles).  st.prefs is the handler's in-memory
\* dict.  Where `await schedule_reminders(...)` gives the loop away, the
\* coroutine is parked with its locals: the file is as it was (file_prefs),
\* the in-memory dict and the chats still to visit wait in st.parked.
RECURSIVE FanOut(_, _, _, _, _, _, _, _)
FanOut(st, chats, file_prefs, cfg, pid, start_time, end_time, t) ==
    IF chats = {} THEN st
    ELSE LET chat == Min(chats)
             fresh == pid \notin DOMAIN st.prefs[chat]
             st1 == IF fresh
                    THEN schedule_reminders(
                            [st EXCEPT !.prefs = Put2(st.prefs, chat, pid, None)],
                            file_prefs, cfg, chat, pid, start_time, end_time, t)
                    ELSE st
         IN  IF fresh /\ Yields("schedule_reminders")
             THEN [st1 EXCEPT
                     !.prefs = file_prefs,
                     !.parked = <<[prefs |-> st1.prefs, chats |-> chats \ {chat},
                                   pid |-> pid, start_time |-> start_time,
                                   end_time |-> end_time]>>]
             ELSE FanOut(st1, chats \ {chat}, file_prefs, cfg, pid,
                         start_time, end_time, t)

\* handle_new_proposal; the returned prefs is what save_user_preferences writes.
handle_new_proposal(st, cfg, pid, sid, start_time, end_time, t) ==
    LET loaded == [st EXCEPT !.map = AssignShortId(st.map, pid, sid)]
    IN  FanOut(loaded, DOMAIN st.prefs, st.prefs, cfg, pid,
               start_time, end_time, t)

----------------------------------------------------------------------------
(* The event loop *)

\* The tasks of post_init.  A poller task is "sleeping" between two cycles
\* (asyncio.sleep), "stalled" inside requests.post / get_new_entries while the
\* call has not returned, "dead" once an exception has left its coroutine.
Pollers == {"snapshot", "on-chain"}

\* requests.post and event_filter.get_new_entries are synchronous calls made
\* from a coroutine: while one of them has not returned, the thread of the
\* event loop is inside it and the loop runs no other task, timer job or
\* update handler.
LoopFree == \A p \in Pollers : poller_tasks[p] # "stalled"

\* The loop can run the next cycle of poller: its task lives and it is this
\* poller's call, if any, that the loop is waiting in.
CanPoll(poller) ==
    /\ poller_tasks[poller] # "dead"
    /\ \A p \in Pollers \ {poller} : poller_tasks[p] # "stalled"

\* what goes wrong in a poll cycle: "fetch" is a transport or parse error
\* (requests.post, response.json(), get_new_entries, w3.eth.block_number
\* raising), "dispatch" an exception out of handle_new_proposal
ErrorKinds == {"fetch", "dispatch"}

\* a handler clause that lets a failed dispatch through
Catches_FetchOnly(kind) == kind = "fetch"

\* `except Exception as e` around the body of a cycle: every kind is caught
Catches(kind) == kind \in ErrorKinds

----------------------------------------------------------------------------
(* State, and what a handler leaves behind for the outside to see *)

State == [prefs |-> preferences, map |-> proposal_id_map,
          sj |-> SCHEDULED_JOBS, untracked |-> untracked_jobs,
          parked |-> suspended]

\* The parked handle_new_proposal coroutine gets the loop back: the rest of
\* its fan-out over its in-memory dict, then its save_user_preferences.
Resumed ==
    FanOut([State EXCEPT !.prefs = suspended[1].prefs, !.parked = <<>>],
           suspended[1].chats, preferences, config,
           suspended[1].pid, suspended[1].start_time, suspended[1].end_time, now)

\* One more step of the run; the handler's writes.
Commit(st) ==
    /\ steps' = steps + 1
    /\ \E written \in {st} :
          /\ preferences' = written.prefs
          /\ proposal_id_map' = written.map
          /\ SCHEDULED_JOBS' = written.sj
          /\ untracked_jobs' = written.untracked
          /\ suspended' = written.parked

\* op: the handler that ran; answer: what query.answer was called with
\* ("none": it was not called); removed: the fire times of the jobs that
\* cancel_scheduled_reminders logged as removed; found: what it found in
\* SCHEDULED_JOBS for the pair ("n/a": it was not called).
Last(op, answer) ==
    [op |-> op, answer |-> answer, removed |-> <<>>, found |-> "n/a"]

Init ==
    /\ preferences = EmptyDict
    /\ proposal_id_map = <<>>
    /\ known_proposals = {}
    /\ SCHEDULED_JOBS = EmptyDict
    /\ untracked_jobs = <<>>
    /\ now = 0
    /\ config \in Configs
    /\ poller_tasks = [p \in Pollers |-> "sleeping"]
    /\ suspended = <<>>
    /\ steps = 0
    /\ last = Last("boot", "none")

----------------------------------------------------------------------------
(* Commands and button interactions *)

\* start: register the chat unless it is registered.
start(chat) ==
    /\ LoopFree
    /\ Commit([State EXCEPT !.prefs = IF chat \notin DOMAIN preferences
                                      THEN Put(preferences, chat, EmptyDict)
                                      ELSE preferences])
    /\ last' = Last("start", "none")
    /\ UNCHANGED <<known_proposals, now, config, poller_tasks>>

\* a handler that takes a short id it cannot resolve for the proposal id
ButtonOutcome_Fallback(st, chat, action, short_id, hours, t) ==
    LET proposal_id == IF short_id \in Values(st.map)
                       THEN short_id_to_proposal_id(st.map, short_id)
                       ELSE short_id
    IN  IF action = "voted"
        THEN cancel_scheduled_reminders(
                 [st EXCEPT !.prefs = Put2(st.prefs, chat, proposal_id, Voted)],
                 chat, proposal_id)
        ELSE IF action = "remind_in"
        THEN [st EXCEPT
                !.prefs = Put2(st.prefs, chat, proposal_id, IsoFormat(t + hours)),
                !.sj = Put2(st.sj, chat, proposal_id,
                            Append(Handles(st.sj, chat, proposal_id),
                                   Job(t + hours)))]
        ELSE st

\* button_callback with callback data action|short_id[|hours].  sent tells
\* whether context.bot.send_message returned; when it raises, the handler ends
\* there and query.answer() is not reached.
ButtonOutcome(st, chat, action, short_id, hours, t) ==
    IF short_id \notin Values(st.map) THEN st
    ELSE LET proposal_id == short_id_to_proposal_id(st.map, short_id)
         IN  IF action = "voted"
             THEN cancel_scheduled_reminders(
                      [st EXCEPT !.prefs = Put2(st.prefs, chat, proposal_id, Voted)],
                      chat, proposal_id)
             ELSE IF action = "remind_in"
             THEN LET next_reminder_time == t + hours
                      job == Job(next_reminder_time)
                  IN  [st EXCEPT
                         !.prefs = Put2(st.prefs, chat, proposal_id,
                                        IsoFormat(next_reminder_time)),
                         !.sj = Put2(st.sj, chat, proposal_id,
                                     Append(Handles(st.sj, chat, proposal_id), job))]
             ELSE st

ButtonAnswer(m, action, short_id, sent) ==
    IF short_id \notin Values(m) THEN "An error occurred"
    ELSE IF action \in {"voted", "remind_in"} /\ ~sent THEN "none"
    ELSE "ok"

\* what the 'voted' branch logs as removed
ButtonRemoved(st, chat, action, short_id) ==
    IF short_id \in Values(st.map) /\ action = "voted"
    THEN LET handles == Handles(st.sj, chat,
                                short_id_to_proposal_id(st.map, short_id))
         IN  RemovedTimes(handles, RemoveJobs(handles))
    ELSE <<>>

\* what cancel_scheduled_reminders finds for the pair: no entry (the warning
\* of its else branch), an empty list, a list with the handle of a job that
\* has run, or handles of waiting jobs only
Found(sj, chat, pid) ==
    IF ~(chat \in DOMAIN sj /\ pid \in DOMAIN sj[chat]) THEN "absent"
    ELSE IF sj[chat][pid] = <<>> THEN "empty"
    ELSE IF \E i \in DOMAIN sj[chat][pid] : sj[chat][pid][i].status = "fired"
    THEN "fired"
    ELSE "waiting"

ButtonFound(st, chat, action, short_id) ==
    IF short_id \in Values(st.map) /\ action = "voted"
    THEN Found(st.sj, chat, short_id_to_proposal_id(st.map, short_id))
    ELSE "n/a"

\* the branch of button_callback taken
ButtonOp(m, action, short_id) ==
    IF short_id \notin Values(m) THEN "unknown_short_id"
    ELSE IF action \in {"voted", "remind_in"} THEN action
    ELSE "unknown_action"

Actions == {"voted", "remind_in", "other"}

button_callback(chat, action, short_id, hours, sent) ==
    LET st == ButtonOutcome(State, chat, action, short_id, hours, now)
    IN  /\ LoopFree
        /\ UNCHANGED <<known_proposals, now, config, poller_tasks>>
        /\ last' = [Last(ButtonOp(proposal_id_map, action, short_id),
                         ButtonAnswer(proposal_id_map, action, short_id, sent))
                    EXCEPT !.removed =
                        ButtonRemoved(State, chat, action, short_id),
                           !.found =
                        ButtonFound(State, chat, action, short_id)]
        /\ Commit(st)

----------------------------------------------------------------------------
(* The proposal sources *)

\* the Snapshot response when n proposals exist: the SnapshotFirst most recent
\* ones, newest first (orderBy created, orderDirection desc)
SnapshotResponse(n) ==
    [i \in 1..(IF n < SnapshotFirst THEN n ELSE SnapshotFirst) |->
        SnapshotFeed[n + 1 - i]]

\* `for proposal in reversed(proposals)` of monitor_snapshot_proposals over the
\* proposals left; acc is [st, known, dispatched]; sids are the uuid draws the
\* cycle has yet to make, one for each proposal it dispatches.  The loop goes
\* no further while the task waits inside handle_new_proposal.
RECURSIVE SnapshotLoop(_, _, _, _, _)
SnapshotLoop(acc, proposals, sids, cfg, t) ==
    IF proposals = <<>> \/ acc.st.parked # <<>> THEN acc
    ELSE LET proposal == Head(proposals)
             acc1 == IF proposal.id \in acc.known THEN acc
                     ELSE [st |-> handle_new_proposal(acc.st, cfg, proposal.id,
                                      Head(sids), proposal.start, proposal.end, t),
                           known |-> acc.known \cup {proposal.id},
                           dispatched |-> Append(acc.dispatched, proposal.id)]
             left == IF proposal.id \in acc.known THEN sids ELSE Tail(sids)
         IN  SnapshotLoop(acc1, Tail(proposals), left, cfg, t)

\* One cycle of monitor_snapshot_proposals that got a response without errors.
\* A coroutine parked inside handle_new_proposal is resumed before a task
\* begins another dispatch: at most one is inside handle_new_proposal.
monitor_snapshot_proposals(proposals, sids) ==
    LET acc == IF suspended = <<>>
               THEN SnapshotLoop([st |-> State, known |-> known_proposals,
                                  dispatched |-> <<>>],
                                 Reverse(proposals), sids, config, now)
               ELSE [st |-> Resumed, known |-> known_proposals,
                     dispatched |-> <<suspended[1].pid>>]
    IN  /\ CanPoll("snapshot")
        /\ UNCHANGED <<now, config>>
        /\ poller_tasks' = [poller_tasks EXCEPT !["snapshot"] = "sleeping"]
        /\ known_proposals' = acc.known
        /\ last' = Last(IF acc.dispatched = <<>> THEN "poll" ELSE "poll_snapshot",
                        "none")
        /\ Commit(acc.st)

\* the proposals of a Snapshot response the cycle hands to handle_new_proposal,
\* in the order it does
Undispatched(proposals) ==
    SelectSeq(Reverse(proposals), LAMBDA p : p.id \notin known_proposals)

\* One cycle of either poller that ends in its `except` branch (or, for
\* Snapshot, in the 'errors' branch): logged, then the normal sleep.  A "fetch"
\* error comes before any proposal is handled.  A "dispatch" error is
\* handle_new_proposal raising at its first statement, the load of the
\* preferences file, for the first proposal it is given: the Snapshot loop has
\* put that proposal id into the known set and saved it by then.
poll_failed(poller, kind, proposals) ==
    /\ CanPoll(poller)
    /\ (poller = "snapshot" /\ kind = "dispatch") => Undispatched(proposals) # <<>>
    /\ Commit(State)
    /\ known_proposals' =
          IF poller = "snapshot" /\ kind = "dispatch"
          THEN known_proposals \cup {Head(Undispatched(proposals)).id}
          ELSE known_proposals
    /\ poller_tasks' = [poller_tasks EXCEPT
                           ![poller] = IF Catches(kind) THEN "sleeping" ELSE "dead"]
    /\ last' = Last("poll", "none")
    /\ UNCHANGED <<now, config>>

\* The blocking call of a poller's cycle does not return: no timeout is set on
\* requests.post, nor on the RPC call of get_new_entries.
stall(poller) ==
    /\ LoopFree
    /\ poller_tasks[poller] = "sleeping"
    /\ Commit(State)
    /\ poller_tasks' = [poller_tasks EXCEPT ![poller] = "stalled"]
    /\ last' = Last("stall", "none")
    /\ UNCHANGED <<known_proposals, now, config>>

\* `for event in events` of monitor_new_proposals_async; acc is [st, dispatched]
RECURSIVE ChainLoop(_, _, _, _, _)
ChainLoop(acc, events, sids, cfg, t) ==
    IF events = <<>> \/ acc.st.parked # <<>> THEN acc
    ELSE LET event == Head(events)
             start_time == t
             end_time == t + event.remaining
             acc1 == [st |-> handle_new_proposal(acc.st, cfg, event.proposalId,
                                  Head(sids), start_time, end_time, t),
                      dispatched |-> Append(acc.dispatched, event.proposalId)]
         IN  ChainLoop(acc1, Tail(events), Tail(sids), cfg, t)

\* One cycle of monitor_new_proposals_async.
monitor_new_proposals_async(events, sids) ==
    LET acc == IF suspended = <<>>
               THEN ChainLoop([st |-> State, dispatched |-> <<>>], events, sids,
                              config, now)
               ELSE [st |-> Resumed, dispatched |-> <<suspended[1].pid>>]
    IN  /\ CanPoll("on-chain")
        /\ UNCHANGED <<known_proposals, now, config>>
        /\ poller_tasks' = [poller_tasks EXCEPT !["on-chain"] = "sleeping"]
        /\ last' = Last(IF acc.dispatched = <<>> THEN "poll" ELSE "poll_chain",
                        "none")
        /\ Commit(acc.st)

\* test_proposal: a proposal with a fresh uuid id and a near-future window.
test_proposal(chat, proposal_id, sid) ==
    LET start_time == now + TestStartDelay
        end_time == now + TestEndDelay
        st == IF suspended = <<>>
              THEN handle_new_proposal(State, config, proposal_id, sid,
                                       start_time, end_time, now)
              ELSE Resumed
    IN  /\ LoopFree
        /\ proposal_id \notin Keys(proposal_id_map)
        /\ UNCHANGED <<known_proposals, now, config, poller_tasks>>
        /\ last' = Last("test_proposal", "none")
        /\ Commit(st)

----------------------------------------------------------------------------
(* Timers, the clock and the process *)

\* The jobs waiting in the job queue: a handle of SCHEDULED_JOBS, or a job
\* without one.
QueuedJobs ==
    UNION { UNION { {<<"handle", c, p, i>> : i \in
                        {k \in DOMAIN SCHEDULED_JOBS[c][p] :
                            SCHEDULED_JOBS[c][p][k].status = "pending"}} :
                    p \in DOMAIN SCHEDULED_JOBS[c] } :
            c \in DOMAIN SCHEDULED_JOBS }
    \cup {<<"untracked", 0, "", i>> : i \in 1..Len(untracked_jobs)}

QueuedData(ref) ==
    IF ref[1] = "handle"
    THEN [chat |-> ref[2], proposal_id |-> ref[3],
          when |-> SCHEDULED_JOBS[ref[2]][ref[3]][ref[4]].when]
    ELSE untracked_jobs[ref[4]]

\* a queue that keeps a job whose message could not be sent, to run it again
RunJob_Retries(st, ref, delivered) ==
    IF ~delivered THEN st
    ELSE IF ref[1] = "handle"
    THEN [st EXCEPT !.sj[ref[2]][ref[3]][ref[4]].status = "fired"]
    ELSE [st EXCEPT !.untracked =
            [i \in 1..(Len(st.untracked) - 1) |->
                IF i < ref[4] THEN st.untracked[i] ELSE st.untracked[i + 1]]]

\* A run_once job that the queue has run is in the queue no more, whether
\* send_message returned or raised (the exception is caught and logged).  Its
\* handle, if SCHEDULED_JOBS has one, stays there.
RunJob(st, ref, delivered) ==
    IF ref[1] = "handle"
    THEN [st EXCEPT !.sj[ref[2]][ref[3]][ref[4]].status = "fired"]
    ELSE [st EXCEPT !.untracked =
            [i \in 1..(Len(st.untracked) - 1) |->
                IF i < ref[4] THEN st.untracked[i] ELSE st.untracked[i + 1]]]

\* The job queue runs a due job: send_reminder_message.  delivered tells
\* whether send_message returned.
send_reminder_message(ref, delivered) ==
    /\ LoopFree
    /\ QueuedData(ref).when <= now
    /\ Commit(RunJob(State, ref, delivered))
    /\ last' = Last(IF delivered THEN "fire" ELSE "fire_failed", "none")
    /\ UNCHANGED <<known_proposals, now, config, poller_tasks>>

\* The clock advances.
Tick ==
    /\ Commit(State)
    /\ now' = now + 1
    /\ last' = Last("tick", "none")
    /\ UNCHANGED <<known_proposals, config, poller_tasks>>

\* The process stops and starts again: SCHEDULED_JOBS = {} at import, a new
\* empty job queue, and post_init, which starts the two pollers and nothing
\* else.  The three files stay as they are.
Restart ==
    /\ Commit([State EXCEPT !.sj = EmptyDict, !.untracked = <<>>, !.parked = <<>>])
    /\ poller_tasks' = [p \in Pollers |-> "sleeping"]
    /\ last' = Last("restart", "none")
    /\ UNCHANGED <<known_proposals, now, config>>

----------------------------------------------------------------------------

\* whether context.bot.send_message returns, in the branches that call it
SendOutcomes(action, short_id) ==
    IF ButtonOp(proposal_id_map, action, short_id) \in {"voted", "remind_in"}
    THEN BOOLEAN ELSE {TRUE}

\* the chats an update may come from: the registered ones and the next new one
ActiveChats == {chat \in Chats : \A c \in Chats : c < chat => c \in DOMAIN preferences}

\* the uuid draws of a poll cycle that handles k proposals at most: the i-th
\* new proposal of the cycle finds Len(proposal_id_map) + i - 1 ids mapped
Draws(k) ==
    {sids \in [1..k -> Range(ShortIdPool)] :
        \A i \in 1..k :
            \E j \in 1..Len(ShortIdPool) :
                sids[i] = ShortIdPool[j] /\ j <= Len(proposal_id_map) + i}

\* the draws of a Snapshot cycle: one for each proposal it dispatches, none of
\* which has a short id yet
SnapshotDraws(proposals) == Draws(Len(Undispatched(proposals)))

\* the draws of an on-chain cycle: one for each event.  The draw for a
\* proposal id that has a short id is not made.
ChainDraws(events) == Draws(Len(events))

Next ==
    \/ /\ steps < MaxSteps
       /\ \E chat \in ActiveChats : start(chat)
    \/ /\ steps < MaxSteps
       /\ \E chat \in ActiveChats, action \in Actions,
             short_id \in Values(proposal_id_map) \cup {StrayShortId},
             i \in 1..Len(config.buttons) :
               \E sent \in SendOutcomes(action, short_id) :
                 button_callback(chat, action, short_id, config.buttons[i], sent)
    \/ /\ steps < MaxSteps
       /\ \E n \in 0..Len(SnapshotFeed) :
             \E sids \in SnapshotDraws(SnapshotResponse(n)) :
               monitor_snapshot_proposals(SnapshotResponse(n), sids)
    \/ /\ steps < MaxSteps
       /\ \E k \in BatchSizes :
             \E events \in [1..k -> [proposalId : ChainIds, remaining : Durations]] :
               \E sids \in ChainDraws(events) :
                 monitor_new_proposals_async(events, sids)
    \/ /\ steps < MaxSteps
       /\ \E poller \in Pollers, kind \in ErrorKinds :
             \E n \in (IF poller = "snapshot" /\ kind = "dispatch"
                       THEN 1..Len(SnapshotFeed) ELSE {0}) :
               poll_failed(poller, kind, SnapshotResponse(n))
    \/ /\ steps < MaxSteps
       /\ \E poller \in Pollers : stall(poller)
    \/ /\ steps < MaxSteps
       /\ \E chat \in ActiveChats, proposal_id \in TestIds, sid \in Draws(1) :
             test_proposal(chat, proposal_id, sid[1])
    \/ /\ steps < MaxSteps
       /\ \E ref \in QueuedJobs, delivered \in BOOLEAN :
             send_reminder_message(ref, delivered)
    \/ /\ steps < MaxSteps
       /\ Tick
    \/ /\ steps < MaxSteps
       /\ Restart

Spec == Init /\ [][Next]_vars

----------------------------------------------------------------------------
(* Properties *)

Pairs == {<<chat, pid>> \in Chats \X Keys(proposal_id_map) :
             HasEntry(preferences, chat, pid)}

ReminderState(chat, pid) == preferences[chat][pid]

Live(chat, pid) == LiveJobs(SCHEDULED_JOBS, untracked_jobs, chat, pid)

\* the on-chain poller hands a proposal id to handle_new_proposal that
\* handle_new_proposal has been given before
Redelivery ==
    /\ last'.op = "poll_chain"
    /\ \E events \in [1..1 -> [proposalId : Keys(proposal_id_map), remaining : Durations]] :
          \E sids \in ChainDraws(events) :
             monitor_new_proposals_async(events, sids)

\* C1: the second delivery of a proposal id to handle_new_proposal has no side
\* effect: it registers no job, assigns no short id and changes no
\* subscriber's reminder state, whatever happened since the first delivery.
C1_DedupSecondDelivery ==
    [][Redelivery =>
         UNCHANGED <<preferences, proposal_id_map, SCHEDULED_JOBS, untracked_jobs>>]_vars

\* C2: a pair whose persisted reminder state is "voted" has no job waiting in
\* the job queue, so none can fire for it, whatever its fire time.
C2_VotedHasNoLiveJobs ==
    \A pair \in Pairs :
        ReminderState(pair[1], pair[2]) = Voted => Live(pair[1], pair[2]) = <<>>

\* button_callback has just handled 'voted' for a pair and took at least two
\* waiting jobs out of the queue, one of them with its fire time reached
C2_Witness ==
    /\ last.op = "voted"
    /\ Len(last.removed) >= 2
    /\ \E i \in DOMAIN last.removed : last.removed[i] <= now
    /\ \E pair \in Pairs : ReminderState(pair[1], pair[2]) = Voted

\* C3: once a pair is marked "voted" its reminder state stays "voted".
C3_VotedIsTerminal ==
    [][\A pair \in Pairs :
          ReminderState(pair[1], pair[2]) = Voted =>
              /\ HasEntry(preferences', pair[1], pair[2])
              /\ preferences'[pair[1]][pair[2]] = Voted]_vars

\* C4: after button_callback handles 'remind_in' with H hours for a pair,
\* exactly one job waits in the queue for that pair, at now + H.
C4_SnoozeReplaces ==
    [][\A chat \in Chats, short_id \in Values(proposal_id_map),
          i \in 1..Len(config.buttons), sent \in BOOLEAN :
          (/\ last'.op = "remind_in"
           /\ HasEntry(preferences', chat,
                       short_id_to_proposal_id(proposal_id_map, short_id))
           /\ button_callback(chat, "remind_in", short_id, config.buttons[i], sent)) =>
              LiveJobs(SCHEDULED_JOBS', untracked_jobs', chat,
                       short_id_to_proposal_id(proposal_id_map, short_id))
                  = <<now + config.buttons[i]>>]_vars

\* The step hands proposal p = [id, start, end] to handle_new_proposal.
Dispatches(p) ==
    \/ /\ p.id \in ChainIds
       /\ last'.op = "poll_chain"
       /\ p.start = now
       /\ \E sids \in ChainDraws(<<[proposalId |-> p.id, remaining |-> p.end - now]>>) :
             monitor_new_proposals_async(
                 <<[proposalId |-> p.id, remaining |-> p.end - now]>>, sids)
    \/ /\ p.id \in TestIds
       /\ last'.op = "test_proposal"
       /\ p.start = now + TestStartDelay
       /\ p.end = now + TestEndDelay
       /\ \E chat \in ActiveChats, sids \in Draws(1) :
             test_proposal(chat, p.id, sids[1])
    \/ /\ p.id \notin known_proposals
       /\ p.id \in known_proposals'
       /\ last'.op = "poll_snapshot"
       /\ \E n \in 1..Len(SnapshotFeed) :
             /\ p \in Range(SnapshotResponse(n))
             /\ \E sids \in SnapshotDraws(SnapshotResponse(n)) :
                   monitor_snapshot_proposals(SnapshotResponse(n), sids)

\* the proposals a source can report at the current time
Reportable ==
    Range(SnapshotFeed)
    \cup {[id |-> c, start |-> now, end |-> now + d] : c \in ChainIds, d \in Durations}
    \cup {[id |-> x, start |-> now + TestStartDelay, end |-> now + TestEndDelay] :
             x \in TestIds}

\* the chats schedule_reminders runs for when proposal id is dispatched:
\* the subscribers without a stored state for it
Targets(id) ==
    {chat \in Chats : chat \in DOMAIN preferences /\ id \notin DOMAIN preferences[chat]}

\* The step runs schedule_reminders for proposal p and some chat.
Schedules(p) ==
    /\ last'.op \in {"poll_chain", "poll_snapshot", "test_proposal"}
    /\ Targets(p.id) # {}
    /\ Dispatches(p)

\* the fire times the configured offsets give for p, one per offset
ComputedTimes(p) ==
    [i \in 1..Len(config.from_start) |-> p.start + config.from_start[i]]
    \o [i \in 1..Len(config.before_end) |-> p.end - config.before_end[i]]

Occurrences(seq, x) == Cardinality({i \in DOMAIN seq : seq[i] = x})

Times(handles) == [i \in DOMAIN handles |-> handles[i].when]

\* C5 as claimed: every job schedule_reminders registers has a fire time
\* strictly later than the moment of scheduling (a computed time <= now gives
\* no job).
C5_PastOrNowDropped ==
    [][\A p \in Reportable :
          Schedules(p) =>
              \A chat \in Targets(p.id) :
                  \A w \in Range(Times(Handles(SCHEDULED_JOBS', chat, p.id))) : w > now]_vars

\* C5 as amended: a computed time strictly earlier than now gives no job, a
\* computed time equal to now gives one; so every job schedule_reminders
\* registers has a fire time at or after the moment of scheduling.
C5_PastDropped ==
    [][\A p \in Reportable :
          Schedules(p) =>
              \A chat \in Targets(p.id) :
                  /\ \A w \in Range(Times(Handles(SCHEDULED_JOBS', chat, p.id))) : w >= now
                  /\ \A w \in Range(ComputedTimes(p)) :
                        w = now =>
                            w \in Range(Times(Handles(SCHEDULED_JOBS', chat, p.id)))]_vars

\* a poll at time 0 has just scheduled a job whose fire time is 0
C5_Witness ==
    /\ now = 0
    /\ last.op \in {"poll_chain", "poll_snapshot"}
    /\ \E pair \in Pairs :
          /\ ReminderState(pair[1], pair[2]) = None
          /\ \E i \in DOMAIN Handles(SCHEDULED_JOBS, pair[1], pair[2]) :
                SCHEDULED_JOBS[pair[1]][pair[2]][i] = Job(0)

\* C6 as claimed: the fire times of the jobs schedule_reminders registers and
\* records are, as a multiset, the computed times that are later than now.
C6_ExactlyFutureTimes ==
    [][\A p \in Reportable :
          Schedules(p) =>
              \A chat \in Targets(p.id) :
                  \A w \in Range(ComputedTimes(p))
                           \cup Range(Times(Handles(SCHEDULED_JOBS', chat, p.id))) :
                      Occurrences(Times(Handles(SCHEDULED_JOBS', chat, p.id)), w)
                        = IF w > now THEN Occurrences(ComputedTimes(p), w) ELSE 0]_vars

\* C6 as amended: the fire times of the jobs schedule_reminders registers and
\* records are, as a multiset, the computed times that are not earlier than
\* now: one waiting job per such offset, equal instants not merged, no other.
C6_ExactlyTimesNotPast ==
    [][\A p \in Reportable :
          Schedules(p) =>
              /\ untracked_jobs' = untracked_jobs
              /\ \A chat \in Targets(p.id) :
                    /\ \A w \in Range(ComputedTimes(p))
                               \cup Range(Times(Handles(SCHEDULED_JOBS', chat, p.id))) :
                          Occurrences(Times(Handles(SCHEDULED_JOBS', chat, p.id)), w)
                            = IF w >= now THEN Occurrences(ComputedTimes(p), w) ELSE 0
                    /\ \A i \in DOMAIN Handles(SCHEDULED_JOBS', chat, p.id) :
                          SCHEDULED_JOBS'[chat][p.id][i].status = "pending"]_vars

\* a dispatch has just given a pair two waiting jobs with the same fire time
C6_Witness ==
    /\ last.op \in {"poll_chain", "poll_snapshot", "test_proposal"}
    /\ \E pair \in Pairs :
          /\ ReminderState(pair[1], pair[2]) = None
          /\ Len(Live(pair[1], pair[2])) = 2
          /\ Live(pair[1], pair[2])[1] = Live(pair[1], pair[2])[2]

\* C7: the short id of a proposal id is set once: every entry of the id map
\* stays where it is, with the same short id, and no proposal id gets a
\* second entry, through every step (re-deliveries and restarts included).
C7_ShortIdStable ==
    [][\A i \in DOMAIN proposal_id_map :
          /\ i \in DOMAIN proposal_id_map'
          /\ proposal_id_map'[i] = proposal_id_map[i]
          /\ \A j \in DOMAIN proposal_id_map' :
                proposal_id_map'[j][1] = proposal_id_map[i][1] => j = i]_vars

\* the on-chain poller has just delivered c1 again: a subscriber had already
\* answered 'voted' to one of its reminders
C7_Witness ==
    /\ last.op = "poll_chain"
    /\ "c1" \in Keys(proposal_id_map)
    /\ \E chat \in Chats :
          HasEntry(preferences, chat, "c1") /\ preferences[chat]["c1"] = Voted

\* C8: after a restart the jobs are there again: for every pair whose persisted
\* state says its reminders are scheduled, each fire time still in the future
\* that had a waiting job before the restart has a waiting job after it.
C8_JobsRebuiltAtStartup ==
    [][(last'.op = "restart" /\ Restart) =>
          \A pair \in Pairs :
              ReminderState(pair[1], pair[2]) # Voted =>
                  \A w \in Range(Live(pair[1], pair[2])) :
                      w > now =>
                          w \in Range(LiveJobs(SCHEDULED_JOBS', untracked_jobs',
                                               pair[1], pair[2]))]_vars

\* the chat's own button interaction
OwnInteraction(chat) ==
    /\ last'.op \in {"voted", "remind_in"}
    /\ \E action \in Actions, short_id \in Values(proposal_id_map),
          i \in 1..Len(config.buttons), sent \in BOOLEAN :
            button_callback(chat, action, short_id, config.buttons[i], sent)

\* C9: a chat that has no reminder state for a proposal the dispatcher has
\* already seen (it registered after the first delivery, or not yet) gets no
\* reminder state and no job for it by any step other than its own button
\* interaction.
C9_NoRetroactiveReminders ==
    [][\A chat \in Chats, pid \in Keys(proposal_id_map) :
          (~HasEntry(preferences, chat, pid) /\ ~OwnInteraction(chat)) =>
              /\ ~HasEntry(preferences', chat, pid)
              /\ LiveJobs(SCHEDULED_JOBS', untracked_jobs', chat, pid) = <<>>]_vars

\* C10: button_callback with a short id that is not in the id map answers the
\* query with the generic error text and writes nothing: preferences, id map,
\* job table and job queue stay as they are. (StrayShortId is the short id
\* pressed that no proposal has; whatever the chat, action and hours are.)
C10_UnknownShortId ==
    [][/\ last'.op \in {"voted", "remind_in", "unknown_action", "unknown_short_id"}
       /\ StrayShortId \notin Values(proposal_id_map)
       =>
          \/ /\ last'.op = "unknown_short_id"
             /\ last'.answer = "An error occurred"
             /\ UNCHANGED <<preferences, proposal_id_map, known_proposals,
                            SCHEDULED_JOBS, untracked_jobs>>
          \/ ~ \E chat \in ActiveChats, action \in Actions,
                 i \in 1..Len(config.buttons), sent \in BOOLEAN :
                 button_callback(chat, action, StrayShortId,
                                 config.buttons[i], sent)]_vars

\* button_callback has just answered a stray short id with the error text
\* while a proposal is mapped and a subscriber has a job waiting
C10_Witness ==
    /\ last.op = "unknown_short_id"
    /\ last.answer = "An error occurred"
    /\ proposal_id_map # <<>>
    /\ \E pair \in Pairs : Live(pair[1], pair[2]) # <<>>

ButtonOps == {"voted", "remind_in", "unknown_action", "unknown_short_id"}

\* C11: every interaction button_callback handles is acknowledged: whatever
\* the branch taken and whether or not the confirmation message could be
\* sent, query.answer has been called when the handler ends.
C11_AlwaysAcknowledged ==
    last.op \in ButtonOps => last.answer # "none"

\* C12: a proposal id that has a reminder job registered (a handle in the job
\* table, or a job waiting in the queue) is in the persisted known-proposal
\* set, whichever source delivered it.
C12_KnownBeforeScheduled ==
    /\ \A chat \in DOMAIN SCHEDULED_JOBS :
          \A pid \in DOMAIN SCHEDULED_JOBS[chat] :
              SCHEDULED_JOBS[chat][pid] # <<>> => pid \in known_proposals
    /\ \A i \in DOMAIN untracked_jobs :
          untracked_jobs[i].proposal_id \in known_proposals

\* C13: the job table holds only handles of jobs that still wait in the job
\* queue: a job that has fired has taken its handle out of the table.
C13_TableHoldsOnlyPending ==
    \A chat \in DOMAIN SCHEDULED_JOBS :
        \A pid \in DOMAIN SCHEDULED_JOBS[chat] :
            \A i \in DOMAIN SCHEDULED_JOBS[chat][pid] :
                SCHEDULED_JOBS[chat][pid][i].status = "pending"

\* The loop can run a cycle of poller (here one that finds nothing new).
CanRunCycle(poller) ==
    IF poller = "snapshot"
    THEN ENABLED monitor_snapshot_proposals(<<>>, <<>>)
    ELSE ENABLED monitor_new_proposals_async(<<>>, <<>>)

\* C14: while the blocking call of one poller has not returned, the other
\* poller can run its cycles, a job whose fire time has come can fire and a
\* button interaction can be handled.
C14_StallDegradesOnlyItsLoop ==
    \A poller \in Pollers :
        poller_tasks[poller] = "stalled" =>
            /\ \A other \in Pollers \ {poller} : CanRunCycle(other)
            /\ ENABLED (\E chat \in ActiveChats, action \in Actions, sent \in BOOLEAN :
                           button_callback(chat, action, StrayShortId,
                                           config.buttons[1], sent))
            /\ (\E ref \in QueuedJobs : QueuedData(ref).when <= now) =>
                   ENABLED (\E ref \in QueuedJobs, delivered \in BOOLEAN :
                               send_reminder_message(ref, delivered))

\* The step is a cycle of poller that ends in an error.
FailedCycle(poller) ==
    \E kind \in ErrorKinds, n \in 0..Len(SnapshotFeed) :
        poll_failed(poller, kind, SnapshotResponse(n))

\* C15: an error raised in a poll cycle, before or while a proposal is
\* dispatched, is caught in that cycle: the poller's task goes back to sleep
\* and can poll again, the other poller's task is as it was, no task is ever
\* dead, and the job table, the job queue and the subscribers' states are
\* what they were (the error reaches nothing else in the process).
C15_PollErrorsCaught ==
    [][\A poller \in Pollers :
          (last'.op = "poll" /\ FailedCycle(poller)) =>
              /\ poller_tasks'[poller] = "sleeping"
              /\ \A other \in Pollers \ {poller} :
                    poller_tasks'[other] = poller_tasks[other]
              /\ \A p \in Pollers : poller_tasks'[p] \notin {"dead", "stalled"}
              /\ UNCHANGED <<preferences, proposal_id_map, SCHEDULED_JOBS,
                             untracked_jobs>>]_vars

\* a Snapshot cycle has just failed while dispatching: the proposal it was
\* about to hand over is known and was given no short id, a subscriber has a
\* job waiting, and both pollers sleep until their next cycle
C15_Witness ==
    /\ last.op = "poll"
    /\ \E id \in known_proposals : id \notin Keys(proposal_id_map)
    /\ \E pair \in Pairs : Live(pair[1], pair[2]) # <<>>
    /\ \A p \in Pollers : poller_tasks[p] = "sleeping"

\* how many jobs wait in the job queue for the pair with fire time w
QueueCount(sj, untracked, chat, pid, w) ==
    Occurrences(LiveJobs(sj, untracked, chat, pid), w)

\* C16: the firing of a job, delivered or not, changes no persisted record
\* (preferences, id map, known set) and takes exactly one job out of the job
\* queue, one whose fire time has come: every other waiting job of every
\* pair stays, and a job whose message could not be sent is not queued again.
C16_FiringKeepsState ==
    [][last'.op \in {"fire", "fire_failed"} =>
          /\ UNCHANGED <<preferences, proposal_id_map, known_proposals>>
          /\ \E chat \in Chats, pid \in Keys(proposal_id_map), when \in 0..now :
                \A c \in Chats, p \in Keys(proposal_id_map),
                   w \in 0..(now + MaxSteps + 2) :
                    QueueCount(SCHEDULED_JOBS', untracked_jobs', c, p, w)
                      = QueueCount(SCHEDULED_JOBS, untracked_jobs, c, p, w)
                        - (IF <<c, p, w>> = <<chat, pid, when>> THEN 1 ELSE 0)]_vars

\* a job has just fired without its message being delivered, while the same
\* pair, still without an answer of the subscriber, has another job waiting
C16_Witness ==
    /\ last.op = "fire_failed"
    /\ \E pair \in Pairs :
          /\ ReminderState(pair[1], pair[2]) = None
          /\ Live(pair[1], pair[2]) # <<>>
          /\ \E i \in DOMAIN Handles(SCHEDULED_JOBS, pair[1], pair[2]) :
                SCHEDULED_JOBS[pair[1]][pair[2]][i].status = "fired"

\* the place of a Snapshot proposal in creation order
FeedIndex(id) == CHOOSE i \in DOMAIN SnapshotFeed : SnapshotFeed[i].id = id

\* the proposal ids the step gives a short id, in the order it does
NewlyMapped ==
    [i \in 1..(Len(proposal_id_map') - Len(proposal_id_map)) |->
        proposal_id_map'[Len(proposal_id_map) + i][1]]

\* C17: a Snapshot poll cycle hands the proposals it did not know to
\* handle_new_proposal oldest first (the reverse of the newest-first response),
\* one after the other: they are exactly the ids the cycle adds to the known
\* set, and they get their short ids in ascending creation order.
C17_OldestFirst ==
    [][last'.op = "poll_snapshot" =>
          /\ Range(NewlyMapped) = known_proposals' \ known_proposals
          /\ Len(NewlyMapped) = Cardinality(known_proposals' \ known_proposals)
          /\ \A i, j \in DOMAIN NewlyMapped :
                i < j => FeedIndex(NewlyMapped[i]) < FeedIndex(NewlyMapped[j])]_vars

\* the second step of the run was a Snapshot cycle that dispatched two
\* proposals to a subscriber
C17_Witness ==
    /\ last.op = "poll_snapshot"
    /\ steps = 2
    /\ Len(proposal_id_map) = 2
    /\ Cardinality(known_proposals) = 2
    /\ \E chat \in DOMAIN preferences :
          \A i \in DOMAIN SnapshotFeed : HasEntry(preferences, chat, SnapshotFeed[i].id)

\* C18: cancel_scheduled_reminders called for any pair of a subscriber and a
\* mapped proposal, in any reachable state, writes no file and takes only waiting jobs of that pair's handles
\* out of the queue; for a pair with no entry it changes nothing; for a pair
\* whose handles are all of jobs that have run or were removed it only
\* deletes the entry and leaves the queue as it is; the entries of all other
\* pairs stay; and a second call right after the first changes nothing more.
C18_CancelIdempotent ==
    \A chat \in DOMAIN preferences, pid \in Keys(proposal_id_map) :
        LET once == cancel_scheduled_reminders(State, chat, pid)
            twice == cancel_scheduled_reminders(once, chat, pid)
        IN  /\ twice = once
            /\ once.prefs = preferences
            /\ once.map = proposal_id_map
            /\ once.untracked = untracked_jobs
            /\ Found(once.sj, chat, pid) = "absent"
            /\ Found(SCHEDULED_JOBS, chat, pid) = "absent" => once = State
            /\ Pending(Handles(SCHEDULED_JOBS, chat, pid)) = <<>> =>
                  \A c \in DOMAIN preferences, p \in Keys(proposal_id_map) :
                      LiveJobs(once.sj, once.untracked, c, p) = Live(c, p)
            /\ \A c \in DOMAIN SCHEDULED_JOBS :
                  /\ c \in DOMAIN once.sj
                  /\ DOMAIN once.sj[c] =
                        DOMAIN SCHEDULED_JOBS[c] \ (IF c = chat THEN {pid} ELSE {})
                  /\ \A p \in DOMAIN once.sj[c] :
                        once.sj[c][p] = SCHEDULED_JOBS[c][p]
            /\ DOMAIN once.sj = DOMAIN SCHEDULED_JOBS

\* button_callback has just handled 'voted' for a pair whose entry held the
\* handle of a job that had already fired
C18_Witness ==
    /\ last.op = "voted"
    /\ last.found = "fired"
    /\ \E pair \in Pairs :
          /\ ReminderState(pair[1], pair[2]) = Voted
          /\ Found(SCHEDULED_JOBS, pair[1], pair[2]) = "absent"

\* C19: no two proposal ids of the id map have the same short id, and the
\* reversed map of button_callback gives, for the short id of every proposal,
\* that proposal.
C19_ShortIdsUnique ==
    /\ \A i, j \in DOMAIN proposal_id_map :
          i # j => proposal_id_map[i][2] # proposal_id_map[j][2]
    /\ \A i \in DOMAIN proposal_id_map :
          short_id_to_proposal_id(proposal_id_map, proposal_id_map[i][2])
            = proposal_id_map[i][1]

\* the persisted reminder state of a pair, if it has one
Entry(prefs, chat, pid) ==
    IF HasEntry(prefs, chat, pid) THEN prefs[chat][pid] ELSE <<"no entry">>

\* the proposals whose buttons carry short_id
ButtonsOf(short_id) ==
    {proposal_id_map[k][1] : k \in {i \in DOMAIN proposal_id_map :
                                        proposal_id_map[i][2] = short_id}}

\* The step is button_callback handling 'voted' or 'remind_in' for chat and
\* short_id.
Interaction(chat, short_id) ==
    /\ last'.op \in {"voted", "remind_in"}
    /\ \E i \in 1..Len(config.buttons), sent \in BOOLEAN :
          button_callback(chat, last'.op, short_id, config.buttons[i], sent)

\* the step leaves the reminder state and the waiting jobs of the pair alone
Untouched(chat, pid) ==
    /\ Entry(preferences', chat, pid) = Entry(preferences, chat, pid)
    /\ LiveJobs(SCHEDULED_JOBS', untracked_jobs', chat, pid) = Live(chat, pid)

\* C20: a 'voted' or 'remind_in' interaction of chat A with a button of
\* proposal P changes the reminder state and the waiting jobs of the pair
\* (A, P) only: every other chat's, and A's for every other proposal, are as
\* they were.
C20_NoInterference ==
    [][\A chat \in Chats, short_id \in Values(proposal_id_map) :
          Interaction(chat, short_id) =>
              \A proposal_id \in ButtonsOf(short_id) :
                  \A c \in Chats, p \in Keys(proposal_id_map) :
                      <<c, p>> # <<chat, proposal_id>> => Untouched(c, p)]_vars

\* The part of C20 about other subscribers: an interaction of chat A changes
\* no reminder state and no waiting job of any other chat.
OtherChatsUntouched ==
    [][\A chat \in Chats, short_id \in Values(proposal_id_map) :
          Interaction(chat, short_id) =>
              \A c \in Chats \ {chat}, p \in Keys(proposal_id_map) :
                  Untouched(c, p)]_vars

\* the steps in which handle_new_proposal reaches its save_user_preferences
DispatchOps == {"poll_snapshot", "poll_chain", "test_proposal"}

\* what start and button_callback have written into the preferences file: the
\* subscriptions and the reminder states
Written == {<<chat, pid>> \in (DOMAIN preferences) \X Keys(proposal_id_map) :
               pid \in DOMAIN preferences[chat]}

\* C21: no update of the preferences record is lost: the whole-record save at
\* the end of handle_new_proposal writes back every subscription that start
\* and every "voted" or snooze state that button_callback had put into the
\* file, because no other task runs between the handler's load and its save.
C21_NoLostUpdate ==
    [][last'.op \in DispatchOps =>
          /\ DOMAIN preferences \subseteq DOMAIN preferences'
          /\ \A w \in Written :
                /\ w[2] \in DOMAIN preferences'[w[1]]
                /\ preferences'[w[1]][w[2]] = preferences[w[1]][w[2]]]_vars

\* a dispatch has just saved the record for two subscribers, one of whom had
\* a state written by button_callback: the state is there beside the entry of
\* the proposal just dispatched, which both subscribers got
C21_Witness ==
    /\ last.op \in DispatchOps
    /\ suspended = <<>>
    /\ \E c1 \in DOMAIN preferences, c2 \in DOMAIN preferences,
          old \in Keys(proposal_id_map) :
          LET new == proposal_id_map[Len(proposal_id_map)][1]
          IN  /\ c1 # c2
              /\ old # new
              /\ HasEntry(preferences, c1, old)
              /\ preferences[c1][old] # None
              /\ HasEntry(preferences, c1, new)
              /\ preferences[c1][new] = None
              /\ HasEntry(preferences, c2, new)
              /\ preferences[c2][new] = None

====
